---------------------------- MODULE Spec2Model ----------------------------
(***************************************************************************)
(* A model of fetch_nwm.py: the pipeline that locates the newest NWM       *)
(* channel-routing file in the public bucket, downloads it to a scratch    *)
(* directory, extracts the filtered streamflow map and publishes it as a   *)
(* JSON document (or writes it locally under --dry-run).                   *)
(*                                                                         *)
(* Encodings.  A datetime is a record [year, month, day, hour] (minute,    *)
(* second and microsecond are zeroed by the code before any use).  A float *)
(* is a record [nan, v] with v a fixed-point integer; streamflow is in     *)
(* thousandths of m3/s, classifier inputs in ten-thousandths.  An object   *)
(* key below a date prefix is a tuple <<kind, h1, h2, prod, tm, ext>>      *)
(* whose tuple order is the byte order of the key it stands for.           *)
(***************************************************************************)
EXTENDS Integers, Sequences, FiniteSets, TLC

VARIABLES
    now,            \* datetime.now(timezone.utc) read by get_latest_nwm_url
    store,          \* the NOAA bucket: what is stored under today's and yesterday's prefix
    located,        \* outcome of get_latest_nwm_url
    dataset,        \* rows (feature_id, streamflow) of the NetCDF file
    min_streamflow, \* the threshold passed to process_nwm_data
    extracted,      \* outcome of process_nwm_data: sites, skipped
    cx, cy,         \* two inputs of the classifiers
    vlabels,        \* categorize_velocity of cx and of cy
    slabels,        \* categorize_streamflow of cx and of cy
    pc,             \* position of main()
    run,            \* number of the current invocation of main()
    dry_run,        \* args.dry_run of the current invocation
    tmpDirs,        \* invocations whose mkdtemp() directory exists
    tmpFiles,       \* invocations whose nwm_channel_rt.nc exists
    puts,           \* put_object calls made on the output bucket
    localDocs,      \* writes of current_velocity.json
    trace           \* steps of the current invocation, in order

vars == <<now, store, located, dataset, min_streamflow, extracted, cx, cy,
          vlabels, slabels, pc, run, dry_run, tmpDirs, tmpFiles, puts,
          localDocs, trace>>

locVars == <<now, store, located>>
extVars == <<dataset, min_streamflow, extracted>>
clsVars == <<cx, cy, vlabels, slabels>>
mainVars == <<pc, run, dry_run, tmpDirs, tmpFiles, puts, localDocs, trace>>

---------------------------------------------------------------------------
(* bounds *)

\* hours of one day for which the upstream store may hold files
MaxHours == 10
\* rows of one NetCDF file
MaxRows == 4
\* invocations of main() in one behaviour
MaxRuns == 2

---------------------------------------------------------------------------
(* datetime *)

NoDate == [year |-> 0, month |-> 0, day |-> 0, hour |-> 0]

IsLeap(y) == (y % 4 = 0 /\ y % 100 # 0) \/ y % 400 = 0

DaysInMonth(y, m) ==
    IF m = 2 THEN (IF IsLeap(y) THEN 29 ELSE 28)
    ELSE IF m \in {4, 6, 9, 11} THEN 30 ELSE 31

\* a datetime the constructor accepts; replace() raises ValueError otherwise
ValidDate(d) ==
    /\ d.month \in 1..12
    /\ d.day \in 1..DaysInMonth(d.year, d.month)
    /\ d.hour \in 0..23

\* now.replace(hour=0, minute=0, second=0, microsecond=0)
Midnight(t) == [t EXCEPT !.hour = 0]

\* date.replace(day=n); the caller tests ValidDate for the ValueError
ReplaceDay(d, n) == [d EXCEPT !.day = n]

\* date.replace(hour=n)
ReplaceHour(d, n) == [d EXCEPT !.hour = n]

\* date.strftime("%Y%m%d"): eight decimal digits
DateStr(d) ==
    << (d.year \div 1000) % 10, (d.year \div 100) % 10, (d.year \div 10) % 10,
       d.year % 10, (d.month \div 10) % 10, d.month % 10,
       (d.day \div 10) % 10, d.day % 10 >>

\* the calendar day before d (the calendar's rule, not the code's)
PrevDay(d) ==
    IF d.day > 1 THEN [d EXCEPT !.day = d.day - 1]
    ELSE IF d.month > 1
         THEN [d EXCEPT !.month = d.month - 1,
                        !.day = DaysInMonth(d.year, d.month - 1)]
         ELSE [d EXCEPT !.year = d.year - 1, !.month = 12, !.day = 31]

---------------------------------------------------------------------------
(* object keys of the upstream bucket                                      *)
(*   kind 0: "latest_channel_rt.nc"      (no ".t" in the key)              *)
(*   kind 1: "nwm.t<h1><h2>z.analysis_assim.<prod>.tm0<tm>.conus<ext>"     *)
(*   kind 2: "nwm_channel_rt.nc"         (no ".t" in the key)              *)
(* h1, h2: 0..9 a digit, 10 the letter x.                                  *)
(* prod: 1 channel_rt, 2 land, 3 reservoir, 4 terrain_rt.                  *)
(* ext: 1 ".nc", 2 ".nc.md5".                                              *)

Letter == 10

NwmKey(h1, h2, prod, tm, ext) == <<1, h1, h2, prod, tm, ext>>
KeyBefore == <<0, 0, 0, 1, 0, 1>>
KeyAfter == <<2, 0, 0, 1, 0, 1>>

\* a < b in byte order
RECURSIVE LexLess(_, _)
LexLess(a, b) ==
    IF a = <<>> THEN b # <<>>
    ELSE IF b = <<>> THEN FALSE
    ELSE IF Head(a) # Head(b) THEN Head(a) < Head(b)
    ELSE LexLess(Tail(a), Tail(b))

\* "channel_rt" in key
HasChannelRt(k) == k[4] = 1

\* key.endswith(".nc")
EndsWithNc(k) == k[6] = 1

\* the files of the first n hours of a day in byte order, as the bucket
\* holds them: by hour, then product, then tm
Published(n) ==
    [i \in 1..(12 * n) |->
        LET h == (i - 1) \div 12
        IN  NwmKey(h \div 10, h % 10, ((i - 1) % 12) \div 3 + 1, (i - 1) % 3, 1)]

\* the keys s with the key k stored too, in byte order
StoreKey(s, k) ==
    LET before == Cardinality({i \in 1..Len(s) : LexLess(s[i], k)})
    IN  SubSeq(s, 1, before) \o <<k>> \o SubSeq(s, before + 1, Len(s))

\* the keys s with the keys of the set X stored too
RECURSIVE StoreKeys(_, _)
StoreKeys(s, X) ==
    IF X = {} THEN s
    ELSE LET k == CHOOSE k \in X : TRUE
         IN  StoreKeys(StoreKey(s, k), X \ {k})

\* odd objects a date prefix may hold beside the published files:
\* an hour that is no number, an hour past 23, keys without an hour segment,
\* a checksum file
ExtraKeySets ==
    { {},
      {NwmKey(Letter, Letter, 1, 0, 1)},
      {NwmKey(2, 5, 1, 0, 1)},
      {KeyAfter},
      {KeyBefore, NwmKey(0, 0, 1, 0, 2)} }

HourCounts == {0, 1, MaxHours - 1, MaxHours}

\* what one date prefix may hold: the listing fails, or these keys
PrefixContents ==
    { [error |-> TRUE, keys |-> <<>>] } \cup
    { [error |-> FALSE, keys |-> StoreKeys(Published(n), x)] :
        n \in HourCounts, x \in ExtraKeySets }

\* the instants the clock is read at
Instants ==
    { [year |-> y, month |-> m, day |-> d, hour |-> h] :
        y \in {2023, 2024}, m \in {1, 3}, d \in {1, 2, 31}, h \in {0, 13} }

---------------------------------------------------------------------------
(* get_latest_nwm_url *)

NWM_BUCKET == "noaa-nwm-pds"
MaxKeys == 100

\* f"nwm.{date_str}/analysis_assim/"
Prefix(date) == DateStr(date)

\* s3.list_objects_v2(Bucket=NWM_BUCKET, Prefix=prefix, MaxKeys=100):
\* raises, or answers with at most MaxKeys keys, the first in byte order;
\* "Contents" is absent from an answer without keys
ListObjectsV2(st, t, prefix) ==
    LET held == IF prefix = Prefix(Midnight(t)) THEN st.today
                ELSE IF prefix = Prefix(PrevDay(Midnight(t))) THEN st.yesterday
                ELSE [error |-> FALSE, keys |-> <<>>]
        n == IF Len(held.keys) < MaxKeys THEN Len(held.keys) ELSE MaxKeys
    IN  [raises |-> held.error, Contents |-> SubSeq(held.keys, 1, n)]

\* [obj["Key"] for obj in response["Contents"]
\*    if "channel_rt" in obj["Key"] and obj["Key"].endswith(".nc")]
ChannelFiles(contents) ==
    SelectSeq(contents, LAMBDA k : HasChannelRt(k) /\ EndsWithNc(k))

\* s with x put before the first element that is less than x
RECURSIVE InsertDesc(_, _)
InsertDesc(x, s) ==
    IF s = <<>> THEN <<x>>
    ELSE IF LexLess(Head(s), x) THEN <<x>> \o s
    ELSE <<Head(s)>> \o InsertDesc(x, Tail(s))

\* channel_files.sort(reverse=True)
RECURSIVE SortReverse(_)
SortReverse(s) ==
    IF s = <<>> THEN <<>> ELSE InsertDesc(Head(s), SortReverse(Tail(s)))

\* latest.split(".t") has a second part
HasHourSegment(k) == k[1] = 1

\* latest.split(".t")[1][:2]
HourStr(k) == <<k[2], k[3]>>

\* int(hour_str) succeeds
IsNumber(hs) == hs[1] \in 0..9 /\ hs[2] \in 0..9

\* int(hour_str)
IntOf(hs) == 10 * hs[1] + hs[2]

\* f"s3://{NWM_BUCKET}/{latest}"
S3Url(prefix, latest) == [bucket |-> NWM_BUCKET, prefix |-> prefix, name |-> latest]

NoUrl == [bucket |-> "", prefix |-> <<>>, name |-> <<>>]

\* the outcome of the search: kind is "ok" (url and ref_time returned),
\* "RuntimeError" or "ValueError"; dates are the candidate dates computed and
\* listed the prefixes handed to list_objects_v2, in order
Outcome(kind, url, ref_time, dates, listed) ==
    [kind |-> kind, url |-> url, ref_time |-> ref_time, dates |-> dates,
     listed |-> listed]

\* the loop "for days_ago in range(2)" from days_ago on, and the raise after it
RECURSIVE SearchFrom(_, _, _, _, _)
SearchFrom(days_ago, t, st, dates, listed) ==
    IF days_ago >= 2
    THEN Outcome("RuntimeError", NoUrl, NoDate, dates, listed)
    ELSE
      LET date0 == Midnight(t)
          date == IF days_ago # 0 THEN ReplaceDay(date0, date0.day - days_ago)
                  ELSE date0
      IN
      IF ~ValidDate(date)
      THEN Outcome("ValueError", NoUrl, NoDate, dates, listed)
      ELSE
        LET prefix == Prefix(date)
            response == ListObjectsV2(st, t, prefix)
            channel_files == SortReverse(ChannelFiles(response.Contents))
            latest == channel_files[1]
            next == SearchFrom(days_ago + 1, t, st, Append(dates, date),
                               Append(listed, prefix))
        IN
        IF response.raises THEN next
        ELSE IF response.Contents = <<>> THEN next
        ELSE IF channel_files = <<>> THEN next
        ELSE IF ~HasHourSegment(latest) THEN next
        ELSE IF ~IsNumber(HourStr(latest)) THEN next
        ELSE IF ~ValidDate(ReplaceHour(date, IntOf(HourStr(latest)))) THEN next
        ELSE Outcome("ok", S3Url(prefix, latest),
                     ReplaceHour(date, IntOf(HourStr(latest))),
                     Append(dates, date), Append(listed, prefix))

GetLatestNwmUrl(t, st) == SearchFrom(0, t, st, <<>>, <<>>)

NotLocated == Outcome("none", NoUrl, NoDate, <<>>, <<>>)

---------------------------------------------------------------------------
(* floats *)

NaN == [nan |-> TRUE, v |-> 0]
Float(n) == [nan |-> FALSE, v |-> n]

\* np.isnan(q)
IsNaN(q) == q.nan

\* a < b: False whenever either side is NaN
Lt(a, b) == ~a.nan /\ ~b.nan /\ a.v < b.v

\* round(q, 2) of a float in thousandths: the nearest hundredth, a tie (which
\* only a binary-exact q such as 10.125 can be) to the even hundredth
Round2(q) ==
    IF q.nan THEN q
    ELSE LET h == q.v \div 10
             r == q.v % 10
         IN  IF r < 5 THEN Float(10 * h)
             ELSE IF r > 5 THEN Float(10 * (h + 1))
             ELSE IF h % 2 = 0 THEN Float(10 * h) ELSE Float(10 * (h + 1))

---------------------------------------------------------------------------
(* categorize_velocity, categorize_streamflow: inputs in ten-thousandths *)

\* categorize_velocity with the first threshold taken into the lower bucket
categorize_velocity_Inclusive(velocity_ms) ==
    IF ~Lt(Float(1000), velocity_ms) /\ ~velocity_ms.nan THEN "very_slow"
    ELSE IF Lt(velocity_ms, Float(3000)) THEN "slow"
    ELSE IF Lt(velocity_ms, Float(6000)) THEN "moderate"
    ELSE IF Lt(velocity_ms, Float(10000)) THEN "fast"
    ELSE IF Lt(velocity_ms, Float(20000)) THEN "very_fast"
    ELSE "extreme"

categorize_velocity(velocity_ms) ==
    IF Lt(velocity_ms, Float(1000)) THEN "very_slow"
    ELSE IF Lt(velocity_ms, Float(3000)) THEN "slow"
    ELSE IF Lt(velocity_ms, Float(6000)) THEN "moderate"
    ELSE IF Lt(velocity_ms, Float(10000)) THEN "fast"
    ELSE IF Lt(velocity_ms, Float(20000)) THEN "very_fast"
    ELSE "extreme"

categorize_streamflow(cms) ==
    IF Lt(cms, Float(10000)) THEN "very_low"
    ELSE IF Lt(cms, Float(100000)) THEN "low"
    ELSE IF Lt(cms, Float(500000)) THEN "moderate"
    ELSE IF Lt(cms, Float(2000000)) THEN "high"
    ELSE IF Lt(cms, Float(10000000)) THEN "very_high"
    ELSE "extreme"

---------------------------------------------------------------------------
(* process_nwm_data *)

\* min_streamflow: float = 10.0
DefaultMinStreamflow == Float(10000)

\* str(comid): the decimal digits of a non-negative integer
RECURSIVE Str(_)
Str(n) == IF n < 10 THEN <<n>> ELSE Append(Str(n \div 10), n % 10)

\* a dict is the sequence of its (key, value) pairs in insertion order
DictHas(d, k) == \E i \in 1..Len(d) : d[i][1] = k

\* d[k] = val
DictSet(d, k, val) ==
    IF DictHas(d, k)
    THEN [i \in 1..Len(d) |-> IF d[i][1] = k THEN <<k, val>> ELSE d[i]]
    ELSE Append(d, <<k, val>>)

\* the loop body skipping a row whose streamflow equals the threshold
ProcessRow_ThresholdInclusive(acc, row, minflow) ==
    LET q == row.streamflow
    IN  IF IsNaN(q) \/ Lt(q, Float(0))
        THEN [acc EXCEPT !.skipped = acc.skipped + 1]
        ELSE IF Lt(q, minflow) \/ q = minflow
        THEN [acc EXCEPT !.skipped = acc.skipped + 1]
        ELSE [acc EXCEPT !.sites = DictSet(acc.sites, Str(row.feature_id), Round2(q))]

\* the loop body without the test for a negative streamflow
ProcessRow_KeepsNegative(acc, row, minflow) ==
    LET q == row.streamflow
    IN  IF IsNaN(q)
        THEN [acc EXCEPT !.skipped = acc.skipped + 1]
        ELSE IF Lt(q, minflow)
        THEN [acc EXCEPT !.skipped = acc.skipped + 1]
        ELSE [acc EXCEPT !.sites = DictSet(acc.sites, Str(row.feature_id), Round2(q))]

\* the body of "for i, comid in enumerate(comids)" for one row
ProcessRow(acc, row, minflow) ==
    LET q == row.streamflow
    IN  IF IsNaN(q) \/ Lt(q, Float(0))
        THEN [acc EXCEPT !.skipped = acc.skipped + 1]
        ELSE IF Lt(q, minflow)
        THEN [acc EXCEPT !.skipped = acc.skipped + 1]
        ELSE [acc EXCEPT !.sites = DictSet(acc.sites, Str(row.feature_id), Round2(q))]

\* the loop over rows i..Len(rows)
RECURSIVE ProcessFrom(_, _, _, _)
ProcessFrom(i, rows, minflow, acc) ==
    IF i > Len(rows) THEN acc
    ELSE ProcessFrom(i + 1, rows, minflow, ProcessRow(acc, rows[i], minflow))

\* sites = {}; skipped = 0; the loop; return sites
process_nwm_data(rows, minflow) ==
    ProcessFrom(1, rows, minflow, [sites |-> <<>>, skipped |-> 0])

NotExtracted == [sites |-> <<>>, skipped |-> -1]

\* the streamflow values of the rows, in thousandths:
\* NaN, -1.0, 5.0, 10.004, 10.125, 15.0
QValues == {NaN, Float(-1000), Float(5000), Float(10004), Float(10125), Float(15000)}

\* the thresholds passed: NaN, -5.0, 0.0, 10.0 (the default), 10.004, 10.125
Thresholds ==
    {NaN, Float(-5000), Float(0), DefaultMinStreamflow, Float(10004), Float(10125)}

\* rows with the streamflows qs; feature_id 100, 101, ... and, with dup, the
\* last row repeating the first row's feature_id
MakeRows(qs, dup) ==
    [i \in 1..Len(qs) |->
        [feature_id |-> IF dup /\ i = Len(qs) THEN 100 ELSE 99 + i,
         streamflow |-> qs[i]]]

Datasets ==
    { MakeRows(qs, dup) :
        qs \in UNION { [1..n -> QValues] : n \in 0..MaxRows }, dup \in BOOLEAN }

---------------------------------------------------------------------------
(* JSON text: a sequence of tokens, each a tuple of integers               *)
(*   <<0, c>>      punctuation: 1 "{", 2 "}", 3 ":", 4 ","                 *)
(*   <<1, n, m>>   white space: n line breaks, then m spaces               *)
(*   <<2, ...>>    a string, by its characters                             *)
(*   <<3, v>>      a float, in thousandths                                 *)
(*   <<4, n>>      an integer                                              *)

LBrace == <<0, 1>>
RBrace == <<0, 2>>
Colon == <<0, 3>>
Comma == <<0, 4>>
Ws(n, m) == <<1, n, m>>
JStr(chars) == <<2>> \o chars
JFloat(q) == <<3, q.v>>
JInt(n) == <<4, n>>
IsWs(tok) == tok[1] = 1

\* the member names of the published document
N_generated_at == JStr(<<101>>)
N_reference_time == JStr(<<102>>)
N_site_count == JStr(<<103>>)
N_sites == JStr(<<104>>)

\* a JSON object of the members ms (pairs <<name token, value tokens>>) at
\* nesting depth level: compact with separators (",", ":"), or with indent=2
RECURSIVE JsonMembers(_, _, _)
JsonMembers(ms, level, indent) ==
    IF ms = <<>> THEN <<>>
    ELSE (IF indent THEN <<Ws(1, 2 * level)>> ELSE <<>>)
         \o <<Head(ms)[1], Colon>>
         \o (IF indent THEN <<Ws(0, 1)>> ELSE <<>>)
         \o Head(ms)[2]
         \o (IF Len(ms) > 1 THEN <<Comma>> ELSE <<>>)
         \o JsonMembers(Tail(ms), level, indent)

JsonObject(ms, level, indent) ==
    IF ms = <<>> THEN <<LBrace, RBrace>>
    ELSE <<LBrace>> \o JsonMembers(ms, level + 1, indent)
         \o (IF indent THEN <<Ws(1, 2 * level)>> ELSE <<>>) \o <<RBrace>>

\* dt.isoformat(): the digits of the date and of the hour
IsoFormat(dt) == DateStr(dt) \o <<(dt.hour \div 10) % 10, dt.hour % 10>>

\* output = {"generated_at": ..., "reference_time": ..., "site_count":
\* len(data), "sites": data}
OutputDoc(data, ref_time, t) ==
    [generated_at |-> IsoFormat(t), reference_time |-> IsoFormat(ref_time),
     site_count |-> Len(data), sites |-> data]

\* json.dumps(output, separators=(",", ":")) when indent is FALSE,
\* json.dump(output, f, indent=2) when it is TRUE
JsonDumps(output, indent) ==
    JsonObject(
        << <<N_generated_at, <<JStr(output.generated_at)>> >>,
           <<N_reference_time, <<JStr(output.reference_time)>> >>,
           <<N_site_count, <<JInt(output.site_count)>> >>,
           <<N_sites,
             JsonObject([i \in 1..Len(output.sites) |->
                            <<JStr(output.sites[i][1]),
                              <<JFloat(output.sites[i][2])>> >>],
                        1, indent)>> >>,
        0, indent)

\* reading a document back: the white space dropped
Significant(text) == SelectSeq(text, LAMBDA tok : ~IsWs(tok))

\* the members <<key, value>> of an object of scalar members whose first
\* member starts at toks[i]
RECURSIVE MembersAt(_, _)
MembersAt(toks, i) ==
    IF toks[i] = RBrace THEN <<>>
    ELSE <<<<toks[i], toks[i + 2]>>>>
         \o MembersAt(toks, IF toks[i + 3] = Comma THEN i + 4 ELSE i + 3)

\* the "sites" member of a document, as the pairs <<key, value>>
SitesOf(text) ==
    LET toks == Significant(text)
        at == CHOOSE i \in 1..Len(toks) : toks[i] = N_sites
    IN  MembersAt(toks, at + 3)

\* the "site_count" member of a document
SiteCountOf(text) ==
    LET toks == Significant(text)
        at == CHOOSE i \in 1..Len(toks) : toks[i] = N_site_count
    IN  toks[at + 2]

---------------------------------------------------------------------------
(* main: one action per step of the pipeline, at most MaxRuns invocations  *)

OUTPUT_KEY == "live/current_velocity.json"

Log(event) == trace' = Append(trace, event)

\* 1. s3_url, ref_time = get_latest_nwm_url(); an exception ends the run
Locate ==
    /\ pc = "locate"
    /\ located' = GetLatestNwmUrl(now, store)
    /\ IF located'.kind = "ok"
       THEN pc' = "download" /\ Log("located")
       ELSE pc' = "exit" /\ Log("locate_raised")
    /\ UNCHANGED <<now, store, extVars, clsVars, run, dry_run, tmpDirs,
                   tmpFiles, puts, localDocs>>

\* 2. download_nwm_file: mkdtemp(), then requests.get raises
DownloadRequestFails ==
    /\ pc = "download"
    /\ tmpDirs' = tmpDirs \cup {run}
    /\ pc' = "exit"
    /\ Log("download_raised")
    /\ UNCHANGED <<locVars, extVars, clsVars, run, dry_run, tmpFiles, puts,
                   localDocs>>

\* 2. download_nwm_file: mkdtemp(), then response.raise_for_status() raises
DownloadBadStatus ==
    /\ pc = "download"
    /\ tmpDirs' = tmpDirs \cup {run}
    /\ pc' = "exit"
    /\ Log("download_bad_status")
    /\ UNCHANGED <<locVars, extVars, clsVars, run, dry_run, tmpFiles, puts,
                   localDocs>>

\* 2. download_nwm_file: mkdtemp(), open(temp_file, "wb"), then reading a
\* chunk or writing it raises
DownloadWriteFails ==
    /\ pc = "download"
    /\ tmpDirs' = tmpDirs \cup {run}
    /\ tmpFiles' = tmpFiles \cup {run}
    /\ pc' = "exit"
    /\ Log("download_write_raised")
    /\ UNCHANGED <<locVars, extVars, clsVars, run, dry_run, puts, localDocs>>

\* 2. download_nwm_file returns temp_file
DownloadOk ==
    /\ pc = "download"
    /\ tmpDirs' = tmpDirs \cup {run}
    /\ tmpFiles' = tmpFiles \cup {run}
    /\ pc' = "process"
    /\ Log("downloaded")
    /\ UNCHANGED <<locVars, extVars, clsVars, run, dry_run, puts, localDocs>>

\* the failure of process_nwm_data swallowed: main goes on to the upload
ProcessFails_Swallowed ==
    /\ pc = "process"
    /\ pc' = "upload"
    /\ Log("process_raised")
    /\ UNCHANGED <<locVars, extVars, clsVars, run, dry_run, tmpDirs, tmpFiles,
                   puts, localDocs>>

\* 3. process_nwm_data(nc_path) raises (xr.open_dataset or a missing variable)
ProcessFails ==
    /\ pc = "process"
    /\ pc' = "finally"
    /\ Log("process_raised")
    /\ UNCHANGED <<locVars, extVars, clsVars, run, dry_run, tmpDirs, tmpFiles,
                   puts, localDocs>>

\* 3. sites = process_nwm_data(nc_path)
ProcessOk ==
    /\ pc = "process"
    /\ run \in tmpFiles
    /\ extracted' = process_nwm_data(dataset, min_streamflow)
    /\ pc' = "upload"
    /\ Log("extracted")
    /\ UNCHANGED <<locVars, dataset, min_streamflow, clsVars, run, dry_run,
                   tmpDirs, tmpFiles, puts, localDocs>>

\* the dry run with the early return missing: the local file is written and
\* the document is put as well
UploadDryRun_AlsoPuts ==
    /\ pc = "upload"
    /\ dry_run
    /\ localDocs' = Append(localDocs,
          [run |-> run,
           text |-> JsonDumps(OutputDoc(extracted.sites, located.ref_time, now), TRUE)])
    /\ puts' = Append(puts,
          [run |-> run, Key |-> OUTPUT_KEY,
           Body |-> JsonDumps(OutputDoc(extracted.sites, located.ref_time, now), FALSE)])
    /\ pc' = "finally"
    /\ Log("wrote_local")
    /\ UNCHANGED <<locVars, extVars, clsVars, run, dry_run, tmpDirs, tmpFiles>>

\* 4. upload_to_s3(sites, ref_time, dry_run=True): the local file is written
UploadDryRun ==
    /\ pc = "upload"
    /\ dry_run
    /\ localDocs' = Append(localDocs,
          [run |-> run,
           text |-> JsonDumps(OutputDoc(extracted.sites, located.ref_time, now), TRUE)])
    /\ pc' = "finally"
    /\ Log("wrote_local")
    /\ UNCHANGED <<locVars, extVars, clsVars, run, dry_run, tmpDirs, tmpFiles,
                   puts>>

\* 4. upload_to_s3(sites, ref_time, dry_run=False): s3.put_object succeeds
UploadPut ==
    /\ pc = "upload"
    /\ ~dry_run
    /\ puts' = Append(puts,
          [run |-> run, Key |-> OUTPUT_KEY,
           Body |-> JsonDumps(OutputDoc(extracted.sites, located.ref_time, now), FALSE)])
    /\ pc' = "finally"
    /\ Log("put_object")
    /\ UNCHANGED <<locVars, extVars, clsVars, run, dry_run, tmpDirs, tmpFiles,
                   localDocs>>

\* 4. upload_to_s3(sites, ref_time, dry_run=False): the session, the client
\* or s3.put_object raises
UploadPutFails ==
    /\ pc = "upload"
    /\ ~dry_run
    /\ pc' = "finally"
    /\ Log("upload_raised")
    /\ UNCHANGED <<locVars, extVars, clsVars, run, dry_run, tmpDirs, tmpFiles,
                   puts, localDocs>>

\* finally: if nc_path.exists(): nc_path.unlink(); nc_path.parent.rmdir()
Cleanup ==
    /\ pc = "finally"
    /\ IF run \in tmpFiles
       THEN tmpFiles' = tmpFiles \ {run} /\ tmpDirs' = tmpDirs \ {run}
       ELSE UNCHANGED <<tmpFiles, tmpDirs>>
    /\ pc' = "exit"
    /\ Log("cleanup")
    /\ UNCHANGED <<locVars, extVars, clsVars, run, dry_run, puts, localDocs>>

\* the script is invoked again, with or without --dry-run
Restart ==
    /\ pc = "exit"
    /\ run < MaxRuns
    /\ run' = run + 1
    /\ dry_run' \in BOOLEAN
    /\ pc' = "locate"
    /\ trace' = <<>>
    /\ located' = NotLocated
    /\ extracted' = NotExtracted
    /\ UNCHANGED <<now, store, dataset, min_streamflow, clsVars, tmpDirs,
                   tmpFiles, puts, localDocs>>

---------------------------------------------------------------------------
(* calls of the functions on their own *)

CallLocate ==
    /\ located = NotLocated
    /\ located' = GetLatestNwmUrl(now, store)
    /\ UNCHANGED <<now, store, extVars, clsVars, mainVars>>

CallProcess ==
    /\ extracted = NotExtracted
    /\ extracted' = process_nwm_data(dataset, min_streamflow)
    /\ UNCHANGED <<locVars, dataset, min_streamflow, clsVars, mainVars>>

CallVelocity ==
    /\ vlabels = <<>>
    /\ vlabels' = <<categorize_velocity(cx), categorize_velocity(cy)>>
    /\ UNCHANGED <<locVars, extVars, cx, cy, slabels, mainVars>>

CallStreamflow ==
    /\ slabels = <<>>
    /\ slabels' = <<categorize_streamflow(cx), categorize_streamflow(cy)>>
    /\ UNCHANGED <<locVars, extVars, cx, cy, vlabels, mainVars>>

---------------------------------------------------------------------------
(* specifications *)

EmptyPrefix == [error |-> FALSE, keys |-> <<>>]
FailingPrefix == [error |-> TRUE, keys |-> <<>>]
OneHourPrefix == [error |-> FALSE, keys |-> Published(1)]

\* the rows of the documented example: (100, -1.0), (101, NaN), (102, 5.0),
\* (103, 15.0)
ExampleRows ==
    MakeRows(<<Float(-1000), NaN, Float(5000), Float(15000)>>, FALSE)

\* the classifier inputs, in ten-thousandths: NaN, and around each threshold
ClassifierInputs ==
    {NaN} \cup
    { Float(t + d) :
        t \in {0, 1000, 3000, 6000, 10000, 20000, 100000, 500000, 2000000,
               10000000},
        d \in {-10, -1, 0, 1} }

IdleMain ==
    /\ pc = "idle" /\ run = 0 /\ dry_run = FALSE
    /\ tmpDirs = {} /\ tmpFiles = {} /\ puts = <<>> /\ localDocs = <<>>
    /\ trace = <<>>

IdleLocator ==
    /\ now = NoDate
    /\ store = [today |-> EmptyPrefix, yesterday |-> EmptyPrefix]
    /\ located = NotLocated

IdleExtractor ==
    /\ dataset = <<>> /\ min_streamflow = DefaultMinStreamflow
    /\ extracted = NotExtracted

IdleClassifiers ==
    /\ cx = NaN /\ cy = NaN /\ vlabels = <<>> /\ slabels = <<>>

\* get_latest_nwm_url at each of these instants and store contents
InitLocate ==
    /\ now \in Instants
    /\ store \in [today : PrefixContents, yesterday : PrefixContents]
    /\ located = NotLocated
    /\ IdleExtractor /\ IdleClassifiers /\ IdleMain

SpecLocate == InitLocate /\ [][CallLocate]_vars

\* process_nwm_data on each of these datasets and thresholds
InitExtract ==
    /\ dataset \in Datasets
    /\ min_streamflow \in Thresholds
    /\ extracted = NotExtracted
    /\ IdleLocator /\ IdleClassifiers /\ IdleMain

SpecExtract == InitExtract /\ [][CallProcess]_vars

\* the classifiers on each pair of these inputs
InitClassify ==
    /\ cx \in ClassifierInputs /\ cy \in ClassifierInputs
    /\ vlabels = <<>> /\ slabels = <<>>
    /\ IdleLocator /\ IdleExtractor /\ IdleMain

NextClassify == CallVelocity \/ CallStreamflow

SpecClassify == InitClassify /\ [][NextClassify]_vars

\* main()
Init ==
    /\ now \in { [year |-> 2024, month |-> 3, day |-> d, hour |-> 13] : d \in {1, 2} }
    /\ store \in [today : {FailingPrefix, EmptyPrefix, OneHourPrefix},
                  yesterday : {EmptyPrefix, OneHourPrefix}]
    /\ located = NotLocated
    /\ dataset \in {<<>>, ExampleRows,
                    MakeRows(<<Float(15000), Float(10125)>>, FALSE)}
    /\ min_streamflow = DefaultMinStreamflow
    /\ extracted = NotExtracted
    /\ IdleClassifiers
    /\ pc = "locate" /\ run = 1 /\ dry_run \in BOOLEAN
    /\ tmpDirs = {} /\ tmpFiles = {} /\ puts = <<>> /\ localDocs = <<>>
    /\ trace = <<>>

Next ==
    \/ Locate
    \/ DownloadRequestFails
    \/ DownloadBadStatus
    \/ DownloadWriteFails
    \/ DownloadOk
    \/ ProcessFails
    \/ ProcessOk
    \/ UploadDryRun
    \/ UploadPut
    \/ UploadPutFails
    \/ Cleanup
    \/ Restart

Spec == Init /\ [][Next]_vars

---------------------------------------------------------------------------
(* the claims on get_latest_nwm_url, under SpecLocate *)

Range(s) == { s[i] : i \in 1..Len(s) }

\* the greatest key of a non-empty set, in byte order
Greatest(S) == CHOOSE k \in S : \A j \in S : ~LexLess(k, j)

\* the key names a two-digit hour of the day
NamesHour(k) == k[1] = 1 /\ k[2] \in 0..9 /\ k[3] \in 0..9 /\ 10 * k[2] + k[3] <= 23

\* the two dates of the lookback window, newest first
Window == <<Midnight(now), PrevDay(Midnight(now))>>

\* the channel-routing keys in the answer to a listing of date d
ListedChannelKeys(d) ==
    { k \in Range(ListObjectsV2(store, now, Prefix(d)).Contents) :
        HasChannelRt(k) /\ EndsWithNc(k) }

\* the listing of date d raises
ListingFails(d) == ListObjectsV2(store, now, Prefix(d)).raises

\* date d yields a valid channel-routing key
Yields(d) ==
    /\ ~ListingFails(d)
    /\ ListedChannelKeys(d) # {}
    /\ NamesHour(Greatest(ListedChannelKeys(d)))

\* C9: the candidate dates the search computes are the current UTC date at
\* midnight, then the calendar day before it, at every instant: computing
\* them never raises, a search that examines both has computed exactly these
\* two, and a search that stops earlier has computed the first of them.
C9_CandidateDates ==
    located.kind # "none" =>
        /\ located.kind # "ValueError"
        /\ Len(located.dates) \in 1..2
        /\ located.dates = SubSeq(Window, 1, Len(located.dates))
        /\ located.kind = "RuntimeError" => Len(located.dates) = 2

\* C2: the search returns the result of the first date of the window that
\* yields a valid channel-routing key, and raises the not-found RuntimeError,
\* and no other exception, exactly when no date of the window yields one.
C2_FirstYieldingDate ==
    located.kind # "none" =>
        LET good == { i \in 1..2 : Yields(Window[i]) }
            first == CHOOSE i \in good : \A j \in good : i <= j
        IN  IF good = {}
            THEN located.kind = "RuntimeError"
            ELSE /\ located.kind = "ok"
                 /\ located.url.prefix = Prefix(Window[first])
                 /\ located.url.name = Greatest(ListedChannelKeys(Window[first]))
                 /\ Midnight(located.ref_time) = Window[first]

\* every key stored under the prefix of date d that contains "channel_rt" and
\* ends in ".nc"
StoredChannelKeys(d) ==
    LET held == IF d = Window[1] THEN store.today ELSE store.yesterday
    IN  { k \in Range(held.keys) : HasChannelRt(k) /\ EndsWithNc(k) }

\* C3: the key returned for a date is the greatest, in byte order, of all the
\* keys stored under that date's prefix that contain "channel_rt" and end in
\* ".nc", however many objects the prefix holds, and the reference time is
\* that date at the hour the key names.
C3_GreatestStoredKey ==
    located.kind = "ok" =>
        LET d == Midnight(located.ref_time)
        IN  /\ d \in Range(Window)
            /\ located.url.name = Greatest(StoredChannelKeys(d))
            /\ located.ref_time.hour = 10 * located.url.name[2] + located.url.name[3]

\* the search fails at date d alone: its listing raises, or the key selected
\* for it names no hour
FailsAt(d) ==
    \/ ListingFails(d)
    \/ ListedChannelKeys(d) # {} /\ ~NamesHour(Greatest(ListedChannelKeys(d)))

\* C8: a failure at one candidate date (its listing raises, or the hour of
\* its selected key is unparseable or absent) never aborts the search: the
\* other candidate date is listed too, and the search ends with a result or
\* with the not-found RuntimeError.
C8_FailureConfined ==
    located.kind # "none" =>
        \A i \in 1..2 :
            FailsAt(Window[i]) /\ (i = 2 => ~Yields(Window[1])) =>
                /\ located.kind \in {"ok", "RuntimeError"}
                /\ Prefix(Window[3 - i]) \in Range(located.listed)
                /\ Prefix(Window[i]) \in Range(located.listed)

\* the three statements above on the dates day.replace(day=day - 1) handles
OtherDays_FirstYieldingDate == now.day # 1 => C2_FirstYieldingDate
OtherDays_FailureConfined == now.day # 1 => C8_FailureConfined
OtherDays_CandidateDates == now.day # 1 => C9_CandidateDates

\* the greatest stored key is the one returned while no prefix holds more
\* than MaxKeys objects
SmallPrefix_GreatestStoredKey ==
    Len(store.today.keys) <= MaxKeys /\ Len(store.yesterday.keys) <= MaxKeys
        => C3_GreatestStoredKey

---------------------------------------------------------------------------
(* the claims on process_nwm_data, under SpecExtract *)

\* the number a string of decimal digits writes
RECURSIVE DecVal(_)
DecVal(digits) ==
    IF digits = <<>> THEN 0
    ELSE 10 * DecVal(SubSeq(digits, 1, Len(digits) - 1)) + digits[Len(digits)]

UniqueIds(rows) ==
    \A i, j \in 1..Len(rows) : rows[i].feature_id = rows[j].feature_id => i = j

\* the row's streamflow is not NaN, not negative and not below the threshold
Kept(row) ==
    /\ ~row.streamflow.nan
    /\ row.streamflow.v >= 0
    /\ ~(~min_streamflow.nan /\ row.streamflow.v < min_streamflow.v)

\* val is q rounded to 2 decimal places: a number of whole hundredths, at
\* most half a hundredth from q
Rounded2(val, q) ==
    /\ ~val.nan
    /\ val.v % 10 = 0
    /\ val.v - q.v <= 5 /\ q.v - val.v <= 5

\* C4: for rows with unique identifiers and any threshold, the map has the
\* entry str(identifier) -> round(streamflow, 2) for exactly the rows whose
\* streamflow is not NaN, not negative and not below min_streamflow, no entry
\* for any other row, and the skipped count is the number of the other rows,
\* so that included + skipped = number of rows.
C4_ExactlyTheKeptRows ==
    extracted # NotExtracted /\ UniqueIds(dataset) =>
        LET sites == extracted.sites
            kept == { i \in 1..Len(dataset) : Kept(dataset[i]) }
        IN  /\ \A i \in kept : \E j \in 1..Len(sites) :
                   /\ DecVal(sites[j][1]) = dataset[i].feature_id
                   /\ Rounded2(sites[j][2], dataset[i].streamflow)
            /\ \A j \in 1..Len(sites) : \E i \in kept :
                   DecVal(sites[j][1]) = dataset[i].feature_id
            /\ \A j, k \in 1..Len(sites) : sites[j][1] = sites[k][1] => j = k
            /\ Len(sites) = Cardinality(kept)
            /\ extracted.skipped = Len(dataset) - Cardinality(kept)
            /\ Len(sites) + extracted.skipped = Len(dataset)

\* the documented example: threshold 10.0 gives exactly {"103": 15.0}, 3 skipped
C4_Example ==
    /\ dataset = ExampleRows
    /\ min_streamflow = DefaultMinStreamflow
    /\ extracted = [sites |-> << <<<<1, 0, 3>>, Float(15000)>> >>, skipped |-> 3]

\* a >= b: False whenever either side is NaN
Ge(a, b) == ~a.nan /\ ~b.nan /\ a.v >= b.v

\* C5 as stated: every value stored in the map is non-missing, non-negative
\* and greater than or equal to the min_streamflow passed, for every input
\* and every threshold (here: every threshold that is a number; a NaN
\* threshold is not less than or equal to any value).
C5_AtLeastThreshold ==
    extracted # NotExtracted /\ ~min_streamflow.nan =>
        \A j \in 1..Len(extracted.sites) :
            LET val == extracted.sites[j][2]
            IN  ~val.nan /\ val.v >= 0 /\ Ge(val, min_streamflow)

\* C5 as amended: every value stored in the map is non-missing and
\* non-negative, and for a threshold that is not NaN it is greater than or
\* equal to min_streamflow rounded to 2 decimal places (the filter compares
\* the streamflow before rounding), hence to min_streamflow itself when the
\* threshold is a number of whole hundredths, as the default 10.0 is.
C5_AtLeastThresholdRounded ==
    extracted # NotExtracted =>
        \A j \in 1..Len(extracted.sites) :
            LET val == extracted.sites[j][2]
            IN  /\ ~val.nan
                /\ val.v >= 0
                /\ ~min_streamflow.nan =>
                     \E r \in (min_streamflow.v - 5)..(min_streamflow.v + 5) :
                         Rounded2(Float(r), min_streamflow) /\ val.v >= r
                /\ ~min_streamflow.nan /\ min_streamflow.v % 10 = 0
                     => val.v >= min_streamflow.v

\* a streamflow equal to the threshold 10.004 is stored as 10.0
C5_RoundedBelowThreshold ==
    /\ min_streamflow = Float(10004)
    /\ \E i \in 1..Len(dataset) : dataset[i].streamflow = Float(10004)
    /\ \E j \in 1..Len(extracted.sites) : extracted.sites[j][2] = Float(10000)

---------------------------------------------------------------------------
(* the claim on the classifiers, under SpecClassify *)

VelocityLabels == <<"very_slow", "slow", "moderate", "fast", "very_fast", "extreme">>
StreamflowLabels == <<"very_low", "low", "moderate", "high", "very_high", "extreme">>

\* the thresholds 0.1, 0.3, 0.6, 1.0, 2.0 and 1, 10, 50, 200, 1000
VelocityBounds == {1000, 3000, 6000, 10000, 20000}
StreamflowBounds == {10000, 100000, 500000, 2000000, 10000000}

\* the position of a label in its order
Rank(labels, l) == CHOOSE i \in 1..Len(labels) : labels[i] = l

\* the label of the half-open interval x falls in: one step up for every
\* threshold that x has reached
Bucket(labels, bounds, x) == labels[1 + Cardinality({b \in bounds : b <= x.v})]

Classifies(labels, bounds, x, y, out) ==
    /\ out[1] \in Range(labels) /\ out[2] \in Range(labels)
    /\ ~x.nan => out[1] = Bucket(labels, bounds, x)
    /\ ~y.nan => out[2] = Bucket(labels, bounds, y)
    /\ ~x.nan /\ ~y.nan /\ x.v <= y.v
         => Rank(labels, out[1]) <= Rank(labels, out[2])

\* C7: both classifiers map every input to exactly one of their six labels,
\* the label of the half-open interval between thresholds the input falls in
\* (a value equal to a threshold is in the upper bucket), and the label never
\* decreases as the input increases.
C7_HalfOpenBuckets ==
    /\ vlabels # <<>> => Classifies(VelocityLabels, VelocityBounds, cx, cy, vlabels)
    /\ slabels # <<>> => Classifies(StreamflowLabels, StreamflowBounds, cx, cy, slabels)

\* categorize_velocity(0.1) = "slow" and categorize_velocity(0.0999) = "very_slow"
C7_Boundary ==
    /\ cx = Float(1000) /\ cy = Float(999)
    /\ vlabels = <<"slow", "very_slow">>
    /\ slabels = <<"very_low", "very_low">>

---------------------------------------------------------------------------
(* the claims on main, under Spec *)

\* the current invocation got as far as calling download_nwm_file
ReachedDownload == Len(trace) >= 2

\* C1: at the end of every run of main that reached the download step,
\* whatever the exit path, neither the temporary file nor the scratch
\* directory that download_nwm_file created for the run still exists.
C1_TempRemovedAtExit ==
    pc = "exit" /\ ReachedDownload => run \notin tmpFiles /\ run \notin tmpDirs

\* the runs whose temporary file and directory the finally clause removes:
\* those that download_nwm_file returned from
C1_TempRemovedAfterDownload ==
    pc = "exit" /\ Len(trace) >= 3 => run \notin tmpFiles /\ run \notin tmpDirs

\* the documents written by the current invocation
Written ==
    { <<"put", i>> : i \in { i \in 1..Len(puts) : puts[i].run = run } }
    \cup { <<"local", i>> : i \in { i \in 1..Len(localDocs) : localDocs[i].run = run } }

LocateSteps == {"located", "locate_raised"}
DownloadSteps ==
    {"downloaded", "download_raised", "download_bad_status", "download_write_raised"}
ProcessSteps == {"extracted", "process_raised"}
UploadSteps == {"put_object", "wrote_local", "upload_raised"}

\* C10: in every run of main the steps occur in the order locate, download,
\* extract, publish, each only after the one before it succeeded; no download
\* is attempted when discovery fails; the output document is written at most
\* once per run, and only after both the download and the extraction
\* succeeded, so that a run ending in a discovery or transport failure
\* publishes nothing.
C10_StepOrder ==
    /\ \A i \in 1..Len(trace) :
         /\ trace[i] \in LocateSteps => i = 1
         /\ trace[i] \in DownloadSteps => i = 2 /\ trace[1] = "located"
         /\ trace[i] \in ProcessSteps => i = 3 /\ trace[2] = "downloaded"
         /\ trace[i] \in UploadSteps => i = 4 /\ trace[3] = "extracted"
    /\ run \in tmpDirs \cup tmpFiles =>
         Len(trace) >= 2 /\ trace[1] = "located" /\ trace[2] \in DownloadSteps
    /\ Cardinality(Written) <= 1
    /\ Written # {} =>
         /\ Len(trace) >= 4
         /\ trace[1] = "located" /\ trace[2] = "downloaded" /\ trace[3] = "extracted"
         /\ trace[4] \in {"put_object", "wrote_local"}
    /\ (\E i \in 1..Len(trace) :
           trace[i] \in {"locate_raised", "download_raised", "download_bad_status",
                         "download_write_raised", "process_raised", "upload_raised"})
         => Written = {}

\* a run that located, downloaded, extracted and then put the document
C10_FullRun ==
    /\ pc = "exit"
    /\ trace = <<"located", "downloaded", "extracted", "put_object", "cleanup">>
    /\ \E i \in 1..Len(puts) : puts[i].run = run /\ SitesOf(puts[i].Body) # <<>>

\* C6: for the same site map and reference time, a run of upload_to_s3 with
\* dry_run set never calls put_object and always writes the local document,
\* and the "sites" and "site_count" of that local document equal those of the
\* document a run without dry_run publishes.
C6_DryRunEquivalent ==
    /\ dry_run => \A i \in 1..Len(puts) : puts[i].run # run
    /\ dry_run /\ Len(trace) >= 4 /\ trace[3] = "extracted" =>
         /\ trace[4] = "wrote_local"
         /\ \E i \in 1..Len(localDocs) : localDocs[i].run = run
    /\ \A i \in 1..Len(localDocs) :
         /\ SitesOf(localDocs[i].text) =
              [j \in 1..Len(extracted.sites) |->
                 <<JStr(extracted.sites[j][1]), JFloat(extracted.sites[j][2])>>]
              \/ localDocs[i].run # run
         /\ SiteCountOf(localDocs[i].text) = JInt(Len(SitesOf(localDocs[i].text)))
         /\ \A k \in 1..Len(puts) :
              /\ SitesOf(localDocs[i].text) = SitesOf(puts[k].Body)
              /\ SiteCountOf(localDocs[i].text) = SiteCountOf(puts[k].Body)

\* a dry run and a run that published, on the same input, with sites to compare
C6_BothWritten ==
    /\ dry_run /\ pc = "exit"
    /\ puts # <<>>
    /\ \E i \in 1..Len(localDocs) :
         localDocs[i].run = run /\ Len(SitesOf(localDocs[i].text)) = 2

===========================================================================
